---- MODULE Spec2Model ----
(***************************************************************************)
(* Model of codeProjetElectroDigitale.py: the HX711 load-cell driver, the  *)
(* multiplexed 7-segment Display and the sampling/alarm loop of main().    *)
(*                                                                         *)
(* Three specifications share the same method-level actions:               *)
(*   Spec        the program main() as written (lines 164-214);            *)
(*   SpecHX      any client of class HX711 (constructor, then any calls);  *)
(*   SpecDisplay any client of class Display.                              *)
(*                                                                         *)
(* A GPIO line is a variable holding its level.  The data line DOUT is     *)
(* driven by the sensor: every read of it takes a fresh level.  Python     *)
(* floats are modelled as exact rationals <<num, den>>.                    *)
(***************************************************************************)
EXTENDS Integers, Sequences, FiniteSets

VARIABLES
    pc,              \* position of the single thread of control
    stack,           \* return positions of the calls in progress
    arg,             \* argument of the call being entered
    exc,             \* exception raised last ("none" when none propagated)
    PD_SCK,          \* level of the sensor clock line (output)
    DOUT,            \* level of the sensor data line at its last read (input)
    GAIN, REFERENCE_UNIT, OFFSET,        \* attributes of HX711
    cal,             \* history: the calibration values set last (see CAL0)
    byte_value,      \* read_next_byte: the byte being shifted in
    data_bytes,      \* read_raw_bytes: bytes completed so far / returned
    nbit,            \* read_raw_bytes: read_next_bit calls completed
    combined_value, signed_value,        \* read_long locals
    weight_kg,       \* read_long result, a rational <<num, den>>
    cv_arg, cv_ret,  \* convert_from_twos_complement called directly
    ready_ret,       \* is_ready result for a direct call
    snap,            \* history of a repeated display_digit call (see SNAP0)
    rr,              \* history of the read in progress (see RR0)
    segments, digits,                    \* levels of Display's lines
    dd,              \* display_digit locals and history (see DD0)
    number,          \* show_number argument, a rational <<num, den>>
    dlog,            \* display_digit calls made by the running show_number
    weight, display_weight,              \* main locals (rationals)
    buzzer, alarm_led, point,            \* levels of main's output lines
    lastSleep,       \* argument of the most recent time.sleep_ms call
    mh               \* history of the running main-loop iteration (see MH0)

ctlVars  == <<pc, stack, arg, exc>>
hxVars   == <<GAIN, REFERENCE_UNIT, OFFSET, cal>>
lineVars == <<PD_SCK, DOUT>>
rdVars   == <<byte_value, data_bytes, nbit, rr>>
rlVars   == <<combined_value, signed_value, weight_kg>>
apiVars  == <<cv_arg, cv_ret, ready_ret, snap>>
dispVars == <<segments, digits>>
ddVars   == <<dd, number, dlog>>
mainVars == <<weight, display_weight, buzzer, alarm_led, point, mh>>
vars == <<pc, stack, arg, exc, PD_SCK, DOUT, GAIN, REFERENCE_UNIT, OFFSET,
          cal,
          byte_value, data_bytes, nbit, combined_value, signed_value,
          weight_kg, cv_arg, cv_ret, ready_ret, snap, rr, segments, digits, dd,
          number,
          dlog, weight, display_weight, buzzer, alarm_led, point, lastSleep,
          mh>>

----------------------------------------------------------------------------
(* Bounds and input sets *)

\* How far around each boundary of the 24-bit range direct calls of
\* convert_from_twos_complement are tried.
MaxDelta == 2

\* Calibration offsets tried by a client are -MaxOffset..MaxOffset.
MaxOffset == 1

Bit == {0, 1}

RECURSIVE Pow2(_)
Pow2(n) == IF n = 0 THEN 1 ELSE 2 * Pow2(n - 1)

\* 24-bit words the sensor presents, most significant bit first.
Words ==
    { 0, 1, 8388607, 8388608, 16777215,      \* 0, 1, 0x7FFFFF, 0x800000, -1
      11163120,                              \* 0xAA55F0
      8400, 8401, 16768816, 16768815,        \* +-20 kg and +-(20 kg + 1/420)
      210, 714, 966, 5040, 41580, 42000 }    \* 0.5, 1.7, 2.3, 12, 99, 100 kg

\* The bits of each word in the order presented: bit 1 is the most
\* significant.
WordBits == [w \in Words |-> [i \in 1..24 |-> (w \div Pow2(24 - i)) % 2]]

\* The levels the sensor may present at the next sample of a read that has
\* already sampled the bits `seen`: the next bit of a word that starts with
\* them, and any level once the 24 bits are out.
Presentable(seen) ==
    IF Len(seen) >= 24 THEN Bit
    ELSE { WordBits[w][Len(seen) + 1] :
             w \in { x \in Words :
                       \A i \in 1..Len(seen) : WordBits[x][i] = seen[i] } }

GainArgs    == {128, 64, 32, 16}
OffsetArgs  == (0 - MaxOffset)..MaxOffset
RefUnitArgs == {0, 1, 420, 0 - 2}
ConvertArgs ==
    Words \cup (0..MaxDelta) \cup ((8388608 - MaxDelta)..(8388608 + MaxDelta))
          \cup ((16777215 - MaxDelta)..16777215)

----------------------------------------------------------------------------
(* Values *)

NoValue == <<0, 0>>          \* no rational (denominators are never 0)
NoInt   == 0 - 1             \* no unsigned value
Unset   == 2                 \* level of a line not configured as an output

\* The arguments of the latest set_offset and set_reference_unit calls, and
\* the values an HX711 has before any such call.
CAL0 == [offset |-> 0, unit |-> 1]

\* History of one read_raw_bytes call.
\*   reads   read_raw_bytes calls begun, this one included, since the caller
\*           (a client, or an iteration of main) made its call
\*   pulses  clock pulses completed (a high followed by a low)
\*   ready   is_ready has returned True in this call
\*   bits    levels of the data line at the samples of the 24 data pulses
\*   samples samples taken by read_next_bit
RR0 == [reads |-> 0, pulses |-> 0, ready |-> FALSE, bits |-> <<>>,
        samples |-> 0]

\* display_digit locals: the arguments, d = digit lines blanked so far,
\* pattern, i = segment lines written so far; done = the call has returned.
DD0 == [digit |-> 0, position |-> 0, d |-> 0, pattern |-> 0, i |-> 0,
        done |-> FALSE]

\* When a client calls display_digit with the arguments of the display_digit
\* call that returned last, the levels of the ten lines at the moment of the
\* call (taken = FALSE for any other call).
SNAP0 == [taken |-> FALSE, segments |-> [i \in 0..6 |-> Unset],
          digits |-> [i \in 0..2 |-> Unset]]

\* History of one iteration of main's loop: faulted = an exception reached
\* the handler, sleeps = the sleeps made since the iteration started, alarm =
\* the levels of the buzzer and alarm-LED lines when the iteration started.
MH0 == [faulted |-> FALSE, sleeps |-> <<>>, alarm |-> <<Unset, Unset>>]

----------------------------------------------------------------------------
(* Control *)

Call(target, a, back) ==
    /\ pc' = target
    /\ arg' = a
    /\ stack' = <<back>> \o stack
    /\ exc' = exc

Return ==
    /\ pc' = Head(stack)
    /\ stack' = Tail(stack)
    /\ UNCHANGED <<arg, exc>>

\* The call sites inside main's try block (lines 190 and 194).
TryReturns == {"L190_ret", "L194_ret"}

\* No handler: an exception raised under main ends the program.
RaiseUncaught(kind) ==
    /\ pc' = IF stack # <<>> /\ stack[Len(stack)] = "client"
             THEN "client" ELSE "terminated"
    /\ stack' = <<>>
    /\ exc' = kind
    /\ arg' = arg

\* An exception leaves every frame: it reaches main's handler when the
\* outermost call was made inside the try block, the client of the class
\* when there is one, and ends the program otherwise.
Raise(kind) ==
    /\ pc' = IF stack # <<>> /\ stack[Len(stack)] \in TryReturns
             THEN "L211"
             ELSE IF stack # <<>> /\ stack[Len(stack)] = "client"
             THEN "client" ELSE "terminated"
    /\ stack' = <<>>
    /\ exc' = kind
    /\ arg' = arg

----------------------------------------------------------------------------
(* class HX711 *)

BitsPerByte == 8
NumBytes    == 3
DataBits    == NumBytes * BitsPerByte

\* A conversion that subtracts 0xFFFFFF instead of 0x1000000.
convert_off_by_one(input_value) ==
    IF (input_value \div 8388608) % 2 = 1
    THEN input_value - 16777215
    ELSE input_value

\* convert_from_twos_complement, lines 18-22.  The test
\* input_value & 0x800000 is on bit 23 of input_value.
convert_from_twos_complement(input_value) ==
    IF (input_value \div 8388608) % 2 = 1
    THEN input_value - 16777216
    ELSE input_value

\* A mapping put in the order of the gains: 64 gives 2 and 32 gives 3.
GainPulsesOrdered(gain, old) ==
    IF gain = 128 THEN 1
    ELSE IF gain = 64 THEN 2
    ELSE IF gain = 32 THEN 3
    ELSE old

\* set_gain, lines 31-36: the new GAIN (unchanged for any other gain).
GainPulses(gain, old) ==
    IF gain = 128 THEN 1
    ELSE IF gain = 64 THEN 3
    ELSE IF gain = 32 THEN 2
    ELSE old

\* read_next_byte, lines 51-52: byte_value <<= 1; byte_value |= bit.
\* After the shift bit 0 is clear, so the OR adds the bit.
ShiftIn(b, bit) == b * 2 + bit

\* A combination that takes the first byte as the least significant.
CombineLittleEndian(b) == b[3] * 65536 + b[2] * 256 + b[1]

\* read_long, line 78.
Combine(b) == b[1] * 65536 + b[2] * 256 + b[3]

\* A calibration that adds the offset.
CalibrateAdd(signed, offset, unit) == <<signed + offset, unit>>

\* read_long, line 84, for a non-zero reference unit.
Calibrate(signed, offset, unit) == <<signed - offset, unit>>

\* A read that makes one gain pulse too few.
TotalPulsesShort(gain) == DataBits + gain - 1

\* read_raw_bytes, lines 63-68: the read_next_bit calls of one read.
TotalPulses(gain) == DataBits + gain

\* __init__, lines 5-14.  The Pin constructor gives no level to the clock
\* line: it keeps the one the pin has.
HXInit ==
    /\ pc = "hx_init"
    /\ PD_SCK' \in Bit
    /\ DOUT' = DOUT
    /\ GAIN' = 0
    /\ REFERENCE_UNIT' = 1
    /\ OFFSET' = 0
    /\ cal' = cal
    /\ Call("set_gain", arg, "hx_L15")
    /\ UNCHANGED <<rdVars, rlVars, apiVars, dispVars, ddVars,
                   mainVars, lastSleep>>

\* __init__, lines 15-16.
HXInitSleep ==
    /\ pc = "hx_L15"
    /\ lastSleep' = 1
    /\ Return
    /\ UNCHANGED <<hxVars, lineVars, rdVars, rlVars, apiVars, dispVars,
                   ddVars, mainVars>>

\* set_gain, lines 28-36.
SetGain ==
    /\ pc = "set_gain"
    /\ GAIN' = GainPulses(arg, GAIN)
    /\ pc' = "sg_L38"
    /\ UNCHANGED <<stack, arg, exc, REFERENCE_UNIT, OFFSET, cal, lineVars, rdVars,
                   rlVars, apiVars, dispVars, ddVars, mainVars, lastSleep>>

\* A set_gain that starts its read without driving the clock line.
SetGainNoClock ==
    /\ pc = "sg_L38"
    /\ PD_SCK' = PD_SCK
    /\ Call("read_raw_bytes", arg, "sg_ret")
    /\ UNCHANGED <<hxVars, DOUT, rdVars, rlVars, apiVars, dispVars, ddVars,
                   mainVars, lastSleep>>

\* set_gain, lines 38-39.
SetGainClock ==
    /\ pc = "sg_L38"
    /\ PD_SCK' = 0
    /\ Call("read_raw_bytes", arg, "sg_ret")
    /\ UNCHANGED <<hxVars, DOUT, rdVars, rlVars, apiVars, dispVars, ddVars,
                   mainVars, lastSleep>>

\* set_gain returns (after line 39); the bytes read are dropped.
SetGainReturn ==
    /\ pc = "sg_ret"
    /\ byte_value' = 0
    /\ data_bytes' = <<>>
    /\ nbit' = 0
    /\ rr' = rr
    /\ Return
    /\ UNCHANGED <<hxVars, lineVars, rlVars, apiVars, dispVars,
                   ddVars, mainVars, lastSleep>>

\* read_raw_bytes, lines 55-58: the data line is read once for the print.
ReadRawEntry ==
    /\ pc = "read_raw_bytes"
    /\ DOUT' \in Bit
    /\ rr' = [RR0 EXCEPT !.reads = rr.reads + 1]
    /\ byte_value' = 0
    /\ data_bytes' = <<>>
    /\ nbit' = 0
    /\ pc' = "rrb_L59"
    /\ UNCHANGED <<stack, arg, exc, hxVars, PD_SCK, rlVars, apiVars,
                   dispVars, ddVars, mainVars, lastSleep>>

\* A poll that gives up with an exception when the data line is high.
PollBusyTimeout ==
    /\ pc = "rrb_L59"
    /\ DOUT' = 1
    /\ Raise("Exception")
    /\ UNCHANGED <<hxVars, PD_SCK, rdVars, rlVars, apiVars,
                   dispVars, ddVars, mainVars, lastSleep>>

\* read_raw_bytes, lines 59-61 with is_ready, line 26: the data line is high.
PollBusy ==
    /\ pc = "rrb_L59"
    /\ DOUT' = 1
    /\ UNCHANGED <<ctlVars, hxVars, PD_SCK, rdVars, rlVars, apiVars,
                   dispVars, ddVars, mainVars, lastSleep>>

\* read_raw_bytes, line 59 with is_ready, line 26: the data line is low.
PollReady ==
    /\ pc = "rrb_L59"
    /\ DOUT' = 0
    /\ rr' = [rr EXCEPT !.ready = TRUE]
    /\ pc' = "rnb_L43"
    /\ UNCHANGED <<stack, arg, exc, hxVars, PD_SCK, byte_value, data_bytes,
                   nbit, rlVars, apiVars, dispVars, ddVars, mainVars,
                   lastSleep>>

\* read_next_bit, line 43.
ClockHigh ==
    /\ pc = "rnb_L43"
    /\ PD_SCK' = 1
    /\ pc' = "rnb_L44"
    /\ UNCHANGED <<stack, arg, exc, hxVars, DOUT, rdVars, rlVars, apiVars,
                   dispVars, ddVars, mainVars, lastSleep>>

\* A read_next_bit without the write of line 44: the clock stays high.
ClockStaysHigh ==
    /\ pc = "rnb_L44"
    /\ PD_SCK' = PD_SCK
    /\ rr' = [rr EXCEPT !.pulses = IF PD_SCK = 1 THEN @ + 1 ELSE @]
    /\ pc' = "rnb_L45"
    /\ UNCHANGED <<stack, arg, exc, hxVars, DOUT, byte_value, data_bytes,
                   nbit, rlVars, apiVars, dispVars, ddVars, mainVars,
                   lastSleep>>

\* read_next_bit, line 44.
ClockLow ==
    /\ pc = "rnb_L44"
    /\ PD_SCK' = 0
    /\ rr' = [rr EXCEPT !.pulses = IF PD_SCK = 1 THEN @ + 1 ELSE @]
    /\ pc' = "rnb_L45"
    /\ UNCHANGED <<stack, arg, exc, hxVars, DOUT, byte_value, data_bytes,
                   nbit, rlVars, apiVars, dispVars, ddVars, mainVars,
                   lastSleep>>

\* read_next_bit, line 45, and what its callers do with the bit: lines 50-53
\* (shifted into the byte; the byte is complete after 8 bits) for the data
\* bits of lines 63-65, nothing for the gain pulses of lines 67-68.
Sample ==
    /\ pc = "rnb_L45"
    /\ \E b \in Presentable(rr.bits) :
          /\ DOUT' = b
          /\ rr' = [rr EXCEPT !.samples = @ + 1,
                              !.bits = IF nbit < DataBits
                                       THEN Append(@, b) ELSE @]
          /\ IF nbit < DataBits
             THEN IF (nbit + 1) % BitsPerByte = 0
                  THEN /\ data_bytes' = Append(data_bytes,
                                               ShiftIn(byte_value, b))
                       /\ byte_value' = 0
                  ELSE /\ byte_value' = ShiftIn(byte_value, b)
                       /\ data_bytes' = data_bytes
             ELSE UNCHANGED <<byte_value, data_bytes>>
    /\ nbit' = nbit + 1
    /\ pc' = IF nbit + 1 < TotalPulses(GAIN) THEN "rnb_L43" ELSE "rrb_L70"
    /\ UNCHANGED <<stack, arg, exc, hxVars, PD_SCK, rlVars, apiVars,
                   dispVars, ddVars, mainVars, lastSleep>>

\* read_raw_bytes, line 70.
ReadRawReturn ==
    /\ pc = "rrb_L70"
    /\ Return
    /\ UNCHANGED <<hxVars, lineVars, rdVars, rlVars, apiVars, dispVars,
                   ddVars, mainVars, lastSleep>>

\* read_long, lines 72-75.
ReadLong ==
    /\ pc = "read_long"
    /\ combined_value' = NoInt
    /\ signed_value' = 0
    /\ weight_kg' = NoValue
    /\ Call("read_raw_bytes", arg, "rl_L78")
    /\ UNCHANGED <<hxVars, lineVars, rdVars, apiVars, dispVars, ddVars,
                   mainVars, lastSleep>>

\* read_long, line 78.
ReadLongCombine ==
    /\ pc = "rl_L78"
    /\ combined_value' = Combine(data_bytes)
    /\ pc' = "rl_L81"
    /\ UNCHANGED <<stack, arg, exc, hxVars, lineVars, rdVars, signed_value,
                   weight_kg, apiVars, dispVars, ddVars, mainVars, lastSleep>>

\* read_long, line 81.
ReadLongConvert ==
    /\ pc = "rl_L81"
    /\ signed_value' = convert_from_twos_complement(combined_value)
    /\ pc' = "rl_L84"
    /\ UNCHANGED <<stack, arg, exc, hxVars, lineVars, rdVars, combined_value,
                   weight_kg, apiVars, dispVars, ddVars, mainVars, lastSleep>>

\* A division guarded against a zero reference unit: the uncalibrated value
\* is returned instead.
ReadLongCalibrateGuarded ==
    /\ pc = "rl_L84"
    /\ weight_kg' = IF REFERENCE_UNIT = 0
                    THEN <<signed_value - OFFSET, 1>>
                    ELSE Calibrate(signed_value, OFFSET, REFERENCE_UNIT)
    /\ Return
    /\ UNCHANGED <<hxVars, lineVars, rdVars, combined_value, signed_value,
                   apiVars, dispVars, ddVars, mainVars, lastSleep>>

\* read_long, lines 84-86: the division raises for a zero reference unit.
ReadLongCalibrate ==
    /\ pc = "rl_L84"
    /\ IF REFERENCE_UNIT = 0
       THEN /\ Raise("ZeroDivisionError")
            /\ weight_kg' = weight_kg
       ELSE /\ weight_kg' = Calibrate(signed_value, OFFSET, REFERENCE_UNIT)
            /\ Return
    /\ UNCHANGED <<hxVars, lineVars, rdVars, combined_value, signed_value,
                   apiVars, dispVars, ddVars, mainVars, lastSleep>>

HXSteps ==
    \/ HXInit \/ HXInitSleep
    \/ SetGain \/ SetGainClock \/ SetGainReturn
    \/ ReadRawEntry \/ PollBusy \/ PollReady
    \/ ClockHigh \/ ClockLow \/ Sample \/ ReadRawReturn
    \/ ReadLong \/ ReadLongCombine \/ ReadLongConvert \/ ReadLongCalibrate

----------------------------------------------------------------------------
(* A client of class HX711 *)

\* What a caller keeps of the previous call is dropped when it makes the
\* next one.
Forget ==
    /\ rr' = RR0
    /\ byte_value' = 0
    /\ data_bytes' = <<>>
    /\ nbit' = 0
    /\ combined_value' = NoInt
    /\ signed_value' = 0
    /\ weight_kg' = NoValue
    /\ dd' = DD0
    /\ number' = NoValue
    /\ dlog' = <<>>

\* hx = HX711(dout, pd_sck, gain)
NewHX(gain) ==
    /\ pc = "new_hx"
    /\ pc' = "hx_init"
    /\ arg' = gain
    /\ stack' = <<"client">>
    /\ Forget
    /\ exc' = "none"
    /\ cv_arg' = NoInt
    /\ cv_ret' = NoInt
    /\ ready_ret' = "none"
    /\ snap' = SNAP0
    /\ UNCHANGED <<hxVars, lineVars, dispVars, mainVars, lastSleep>>

\* hx.set_gain(gain), hx.read_long(), hx.read_raw_bytes(), and the calls
\* of a client of Display.
ClientCall(method, a) ==
    /\ pc = "client"
    /\ pc' = method
    /\ arg' = a
    /\ stack' = <<"client">>
    /\ Forget
    /\ exc' = "none"
    /\ cv_arg' = NoInt
    /\ cv_ret' = NoInt
    /\ ready_ret' = "none"
    /\ snap' = IF method = "display_digit" /\ dd.done
                   /\ a = <<dd.digit, dd.position>>
                THEN [taken |-> TRUE, segments |-> segments,
                      digits |-> digits]
                ELSE SNAP0
    /\ UNCHANGED <<hxVars, lineVars, dispVars, mainVars, lastSleep>>

\* hx.is_ready(), lines 24-26.
IsReady ==
    /\ pc = "client"
    /\ DOUT' \in Bit
    /\ Forget
    /\ exc' = "none"
    /\ ready_ret' = IF DOUT' = 0 THEN "true" ELSE "false"
    /\ snap' = SNAP0
    /\ cv_arg' = NoInt
    /\ cv_ret' = NoInt
    /\ UNCHANGED <<pc, stack, arg, hxVars, PD_SCK, dispVars, mainVars,
                   lastSleep>>

\* hx.convert_from_twos_complement(v), lines 18-22.
Convert(v) ==
    /\ pc = "client"
    /\ Forget
    /\ exc' = "none"
    /\ cv_arg' = v
    /\ cv_ret' = convert_from_twos_complement(v)
    /\ ready_ret' = "none"
    /\ snap' = SNAP0
    /\ UNCHANGED <<pc, stack, arg, hxVars, lineVars, dispVars,
                   mainVars, lastSleep>>

\* hx.set_offset(offset), lines 88-91.
SetOffset(offset) ==
    /\ pc = "client"
    /\ OFFSET' = offset
    /\ cal' = [cal EXCEPT !.offset = offset]
    /\ Forget
    /\ exc' = "none"
    /\ cv_arg' = NoInt
    /\ cv_ret' = NoInt
    /\ ready_ret' = "none"
    /\ snap' = SNAP0
    /\ UNCHANGED <<pc, stack, arg, GAIN, REFERENCE_UNIT, lineVars, dispVars,
                   mainVars, lastSleep>>

\* A setter of the reference unit that stores its argument as the offset too.
SetReferenceUnitAndOffset(reference_unit) ==
    /\ pc = "client"
    /\ REFERENCE_UNIT' = reference_unit
    /\ OFFSET' = reference_unit
    /\ cal' = [offset |-> reference_unit, unit |-> reference_unit]
    /\ Forget
    /\ exc' = "none"
    /\ cv_arg' = NoInt
    /\ cv_ret' = NoInt
    /\ ready_ret' = "none"
    /\ snap' = SNAP0
    /\ UNCHANGED <<pc, stack, arg, GAIN, lineVars, dispVars,
                   mainVars, lastSleep>>

\* hx.set_reference_unit(reference_unit), lines 93-96.
SetReferenceUnit(reference_unit) ==
    /\ pc = "client"
    /\ REFERENCE_UNIT' = reference_unit
    /\ cal' = [cal EXCEPT !.unit = reference_unit]
    /\ Forget
    /\ exc' = "none"
    /\ cv_arg' = NoInt
    /\ cv_ret' = NoInt
    /\ ready_ret' = "none"
    /\ snap' = SNAP0
    /\ UNCHANGED <<pc, stack, arg, GAIN, OFFSET, lineVars, dispVars,
                   mainVars, lastSleep>>

HXClient ==
    \/ \E g \in GainArgs : NewHX(g)
    \/ \E g \in GainArgs : ClientCall("set_gain", g)
    \/ ClientCall("read_long", 0)
    \/ ClientCall("read_raw_bytes", 0)
    \/ IsReady
    \/ \E v \in ConvertArgs : Convert(v)
    \/ \E o \in OffsetArgs : SetOffset(o)
    \/ \E r \in RefUnitArgs : SetReferenceUnit(r)

----------------------------------------------------------------------------
(* Rationals <<num, den>> with den > 0, and Python's int, round, min, abs *)

Abs(x) == IF x < 0 THEN 0 - x ELSE x
Sign(x) == IF x < 0 THEN 0 - 1 ELSE IF x > 0 THEN 1 ELSE 0
Min(a, b) == IF a <= b THEN a ELSE b
Max(a, b) == IF a >= b THEN a ELSE b

\* abs(q), with a positive denominator.
QAbs(q) == <<Abs(q[1]), Abs(q[2])>>
\* q > n for an integer n.
QGreater(q, n) == q[1] > n * q[2]
\* int(q): truncation towards zero.
PyInt(q) == IF q[1] >= 0 THEN q[1] \div q[2] ELSE 0 - ((0 - q[1]) \div q[2])
\* round(q): to the nearest integer, a tie to the even one.
PyRound(q) ==
    LET f == q[1] \div q[2]
        r == 2 * (q[1] - f * q[2])
    IN  IF r < q[2] THEN f
        ELSE IF r > q[2] THEN f + 1
        ELSE IF f % 2 = 0 THEN f ELSE f + 1
\* Python's sequence[i] on a sequence of length n: the 1-based index, or 0
\* for an IndexError.
PyIndex(i, n) ==
    IF 0 <= i /\ i < n THEN i + 1
    ELSE IF 0 - n <= i /\ i < 0 THEN n + i + 1
    ELSE 0

----------------------------------------------------------------------------
(* class Display *)

\* lines 105-116
SEGMENT_PATTERNS == <<126, 48, 109, 121, 51, 91, 95, 112, 127, 123>>

NumSegments == 7
NumDigits   == 3

\* A level taken from the other end of the pattern.
SegLevelReversed(pattern, i) == (pattern \div Pow2(6 - i)) % 2

\* display_digit, line 140: (pattern >> i) & 1.
SegLevel(pattern, i) == (pattern \div Pow2(i)) % 2

\* show_number, line 149.
RoundNumber(q) == Max(0, Min(99, PyInt(q)))

\* A tens digit taken as the remainder.
TensDigitSwapped(q) == RoundNumber(q) % 10

\* show_number, lines 152 and 156.
TensDigit(q) == RoundNumber(q) \div 10
OnesDigit(q) == RoundNumber(q) % 10

\* show_number, line 160: int((number - round(number)) * 10).  The
\* difference is exact in floating point, the product by 10 is rounded:
\* when the exact product is a whole number other than 0 and +-5 (which are
\* exact), the float is that number or just inside it, and int() gives
\* either the number or the one next to it towards zero.
TenthsDigits(q) ==
    LET x == <<(q[1] - PyRound(q) * q[2]) * 10, q[2]>>
        t == PyInt(x)
    IN  IF x[1] % x[2] = 0 /\ t # 0 /\ Abs(t) # 5
        THEN {t, t - Sign(t)}
        ELSE {t}

\* Levels the lines may have when they are made outputs (lines 122, 124 give
\* none): every combination for the digit lines, three for the segment
\* lines.
SegInit ==
    { [i \in 0..6 |-> 0], [i \in 0..6 |-> 1], [i \in 0..6 |-> i % 2] }
DigitInit == [0..2 -> Bit]

\* Display.__init__, lines 119-125.
DisplayInit ==
    /\ segments' \in SegInit
    /\ digits' \in DigitInit

\* display_digit, line 127.
DisplayDigit ==
    /\ pc = "display_digit"
    /\ dd' = [DD0 EXCEPT !.digit = arg[1], !.position = arg[2]]
    /\ dlog' = Append(dlog, arg)
    /\ pc' = "dd_L132"
    /\ UNCHANGED <<stack, arg, exc, hxVars, lineVars, rdVars, rlVars,
                   apiVars, dispVars, number, mainVars, lastSleep>>

\* display_digit, lines 131-132: one digit line is turned off.
BlankDigit ==
    /\ pc = "dd_L132"
    /\ digits' = [digits EXCEPT ![dd.d] = 1]
    /\ dd' = [dd EXCEPT !.d = @ + 1]
    /\ pc' = IF dd.d + 1 < NumDigits THEN "dd_L132" ELSE "dd_L138"
    /\ UNCHANGED <<stack, arg, exc, hxVars, lineVars, rdVars, rlVars,
                   apiVars, segments, number, dlog, mainVars, lastSleep>>

\* display_digit, line 138.
LookupPattern ==
    /\ pc = "dd_L138"
    /\ IF PyIndex(dd.digit, Len(SEGMENT_PATTERNS)) = 0
       THEN /\ Raise("IndexError")
            /\ dd' = dd
       ELSE /\ dd' = [dd EXCEPT !.pattern =
                  SEGMENT_PATTERNS[PyIndex(dd.digit, Len(SEGMENT_PATTERNS))]]
            /\ pc' = "dd_L140"
            /\ UNCHANGED <<stack, arg, exc>>
    /\ UNCHANGED <<hxVars, lineVars, rdVars, rlVars, apiVars, dispVars,
                   number, dlog, mainVars, lastSleep>>

\* A write that toggles the segment line where the pattern has a 1.
WriteSegmentToggle ==
    /\ pc = "dd_L140"
    /\ segments' = [segments EXCEPT ![dd.i] =
                       IF SegLevel(dd.pattern, dd.i) = 1
                       THEN (IF @ = 1 THEN 0 ELSE 1) ELSE @]
    /\ dd' = [dd EXCEPT !.i = @ + 1]
    /\ pc' = IF dd.i + 1 < NumSegments THEN "dd_L140" ELSE "dd_L143"
    /\ UNCHANGED <<stack, arg, exc, hxVars, lineVars, rdVars, rlVars,
                   apiVars, digits, number, dlog, mainVars, lastSleep>>

\* display_digit, lines 139-140: one segment line is written.
WriteSegment ==
    /\ pc = "dd_L140"
    /\ segments' = [segments EXCEPT ![dd.i] = SegLevel(dd.pattern, dd.i)]
    /\ dd' = [dd EXCEPT !.i = @ + 1]
    /\ pc' = IF dd.i + 1 < NumSegments THEN "dd_L140" ELSE "dd_L143"
    /\ UNCHANGED <<stack, arg, exc, hxVars, lineVars, rdVars, rlVars,
                   apiVars, digits, number, dlog, mainVars, lastSleep>>

\* display_digit, line 143.
ActivateDigit ==
    /\ pc = "dd_L143"
    /\ IF PyIndex(dd.position, NumDigits) = 0
       THEN /\ Raise("IndexError")
            /\ UNCHANGED <<digits, dd>>
       ELSE /\ digits' = [digits EXCEPT
                              ![PyIndex(dd.position, NumDigits) - 1] = 0]
            /\ dd' = [dd EXCEPT !.done = TRUE]
            /\ Return
    /\ UNCHANGED <<hxVars, lineVars, rdVars, rlVars, apiVars, segments,
                   number, dlog, mainVars, lastSleep>>

\* show_number, lines 145-152.
ShowNumber ==
    /\ pc = "show_number"
    /\ number' = arg
    /\ dlog' = <<>>
    /\ dd' = DD0
    /\ Call("display_digit", <<TensDigit(arg), 0>>, "sn_L153")
    /\ UNCHANGED <<hxVars, lineVars, rdVars, rlVars, apiVars, dispVars,
                   mainVars, lastSleep>>

\* show_number, lines 153-156.
ShowOnes ==
    /\ pc = "sn_L153"
    /\ lastSleep' = 5
    /\ Call("display_digit", <<OnesDigit(number), 1>>, "sn_L157")
    /\ UNCHANGED <<hxVars, lineVars, rdVars, rlVars, apiVars, dispVars,
                   ddVars, mainVars>>

\* show_number, line 157.
ShowSleep ==
    /\ pc = "sn_L157"
    /\ lastSleep' = 5
    /\ pc' = "sn_L160"
    /\ UNCHANGED <<stack, arg, exc, hxVars, lineVars, rdVars, rlVars,
                   apiVars, dispVars, ddVars, mainVars>>

\* show_number, line 160.
ShowTenths ==
    /\ pc = "sn_L160"
    /\ \E t \in TenthsDigits(number) :
          Call("display_digit", <<t, 2>>, "sn_L161")
    /\ UNCHANGED <<hxVars, lineVars, rdVars, rlVars, apiVars, dispVars,
                   ddVars, mainVars, lastSleep>>

\* A show_number that turns every digit line off before it returns.
ShowReturnBlank ==
    /\ pc = "sn_L161"
    /\ lastSleep' = 5
    /\ digits' = [d \in 0..(NumDigits - 1) |-> 1]
    /\ Return
    /\ UNCHANGED <<hxVars, lineVars, rdVars, rlVars, apiVars, segments,
                   ddVars, mainVars>>

\* show_number, line 161.
ShowReturn ==
    /\ pc = "sn_L161"
    /\ lastSleep' = 5
    /\ Return
    /\ UNCHANGED <<hxVars, lineVars, rdVars, rlVars, apiVars, dispVars,
                   ddVars, mainVars>>

DisplaySteps ==
    \/ DisplayDigit \/ BlankDigit \/ LookupPattern \/ WriteSegment
    \/ ActivateDigit
    \/ ShowNumber \/ ShowOnes \/ ShowSleep \/ ShowTenths \/ ShowReturn

----------------------------------------------------------------------------
(* A client of class Display *)

\* Largest whole number a client passes to show_number.
MaxNumber == 100

DigitArgs    == (0 - 5)..10
PositionArgs == 0..3
NumberArgs ==
    { <<n, 1>> : n \in (0 - 1)..MaxNumber }
      \cup { <<1, 2>>, <<3, 2>>, <<17, 10>>, <<23, 10>>, <<999, 10>>,
             <<0 - 3, 2>>, <<1, 420>>, <<8401, 420>> }

\* display = Display(segment_pins, digit_pins)
NewDisplay ==
    /\ pc = "new_display"
    /\ DisplayInit
    /\ pc' = "client"
    /\ UNCHANGED <<stack, arg, exc, hxVars, lineVars, rdVars, rlVars,
                   apiVars, ddVars, mainVars, lastSleep>>

DisplayClient ==
    \/ NewDisplay
    \/ \E v \in DigitArgs, p \in PositionArgs :
          ClientCall("display_digit", <<v, p>>)
    \/ \E q \in NumberArgs : ClientCall("show_number", q)

----------------------------------------------------------------------------
(* main, lines 164-214 *)

\* line 198: weight > 20
ALARM_THRESHOLD == 20
\* A test that also fires at the threshold.
AlarmReached(w) == w[1] >= ALARM_THRESHOLD * w[2]
AlarmExceeded(w) == QGreater(w, ALARM_THRESHOLD)

\* line 193: min(weight, 99)
DisplayWeight(w) == IF QGreater(w, 99) THEN <<99, 1>> ELSE w

\* lines 209 and 214
LOOP_SLEEP_MS    == 100
BACKOFF_SLEEP_MS == 500

\* line 168: hx = HX711(dout=16, pd_sck=17), with the default gain 128.
MainNewHX ==
    /\ pc = "L168"
    /\ Call("hx_init", 128, "L172")
    /\ UNCHANGED <<hxVars, lineVars, rdVars, rlVars, apiVars, dispVars,
                   ddVars, mainVars, lastSleep>>

\* lines 172-175: hx.set_offset(0); hx.set_reference_unit(420).
MainCalibrate ==
    /\ pc = "L172"
    /\ OFFSET' = 0
    /\ REFERENCE_UNIT' = 420
    /\ cal' = [offset |-> 0, unit |-> 420]
    /\ pc' = "L178"
    /\ UNCHANGED <<stack, arg, exc, GAIN, lineVars, rdVars, rlVars, apiVars,
                   dispVars, ddVars, mainVars, lastSleep>>

\* lines 178-184: the display, the decimal point and the alarm lines.  The
\* alarm pins are given no level: they keep the one they have.
MainNewOutputs ==
    /\ pc = "L178"
    /\ DisplayInit
    /\ point' = 1
    /\ buzzer' \in Bit
    /\ alarm_led' \in Bit
    /\ pc' = "L190"
    /\ UNCHANGED <<stack, arg, exc, hxVars, lineVars, rdVars, rlVars,
                   apiVars, ddVars, weight, display_weight, mh, lastSleep>>

\* line 190, the call: an iteration starts.  weight and display_weight are
\* not read again before lines 190 and 193 assign them, so their old values
\* are dropped here.
LoopRead ==
    /\ pc = "L190"
    /\ mh' = [MH0 EXCEPT !.alarm = <<buzzer, alarm_led>>]
    /\ weight' = NoValue
    /\ display_weight' = NoValue
    /\ rr' = [rr EXCEPT !.reads = 0]
    /\ Call("read_long", 0, "L190_ret")
    /\ UNCHANGED <<hxVars, lineVars, byte_value, data_bytes, nbit, rlVars,
                   apiVars, dispVars, ddVars, buzzer, alarm_led, point,
                   lastSleep>>

\* line 190, the assignment: weight = abs(...).
LoopAbs ==
    /\ pc = "L190_ret"
    /\ weight' = QAbs(weight_kg)
    /\ pc' = "L193"
    /\ UNCHANGED <<stack, arg, exc, hxVars, lineVars, rdVars, rlVars,
                   apiVars, dispVars, ddVars, display_weight, buzzer,
                   alarm_led, point, mh, lastSleep>>

\* lines 193-194.
LoopShow ==
    /\ pc = "L193"
    /\ display_weight' = DisplayWeight(weight)
    /\ Call("show_number", DisplayWeight(weight), "L194_ret")
    /\ UNCHANGED <<hxVars, lineVars, rdVars, rlVars, apiVars, dispVars,
                   ddVars, weight, buzzer, alarm_led, point, mh, lastSleep>>

\* lines 197-198.
LoopTest ==
    /\ pc = "L194_ret"
    /\ pc' = IF AlarmExceeded(weight) THEN "L200" ELSE "L205"
    /\ UNCHANGED <<stack, arg, exc, hxVars, lineVars, rdVars, rlVars,
                   apiVars, dispVars, ddVars, mainVars, lastSleep>>

\* line 200: buzzer.on(), and line 205: buzzer.off().
LoopBuzzer ==
    /\ pc \in {"L200", "L205"}
    /\ buzzer' = IF pc = "L200" THEN 1 ELSE 0
    /\ pc' = IF pc = "L200" THEN "L201" ELSE "L206"
    /\ UNCHANGED <<stack, arg, exc, hxVars, lineVars, rdVars, rlVars,
                   apiVars, dispVars, ddVars, weight, display_weight,
                   alarm_led, point, mh, lastSleep>>

\* lines 201-202: alarm_led.on(), and line 206: alarm_led.off().
LoopLed ==
    /\ pc \in {"L201", "L206"}
    /\ alarm_led' = IF pc = "L201" THEN 1 ELSE 0
    /\ pc' = "L209"
    /\ UNCHANGED <<stack, arg, exc, hxVars, lineVars, rdVars, rlVars,
                   apiVars, dispVars, ddVars, weight, display_weight,
                   buzzer, point, mh, lastSleep>>

\* line 209: the iteration ends.
LoopSleep ==
    /\ pc = "L209"
    /\ lastSleep' = LOOP_SLEEP_MS
    /\ mh' = [mh EXCEPT !.sleeps = Append(@, LOOP_SLEEP_MS)]
    /\ pc' = "L190"
    /\ UNCHANGED <<stack, arg, exc, hxVars, lineVars, rdVars, rlVars,
                   apiVars, dispVars, ddVars, weight, display_weight,
                   buzzer, alarm_led, point>>

\* The statements of the try block, within the read and the rendering, that
\* allocate or print and may therefore raise: lines 57-58, 74, 84, 149, 160.
FaultSites == {"read_long", "read_raw_bytes", "rl_L84", "show_number",
               "sn_L160"}

\* An exception (a subclass of Exception) is raised inside the try block,
\* lines 188-194.
Fault ==
    /\ pc \in FaultSites
    /\ stack # <<>>
    /\ stack[Len(stack)] \in TryReturns
    /\ Raise("Exception")
    /\ UNCHANGED <<hxVars, lineVars, rdVars, rlVars, apiVars, dispVars,
                   ddVars, mainVars, lastSleep>>

\* line 197: the print between the rendering and the alarm test raises.
FaultPrint ==
    /\ pc = "L194_ret"
    /\ stack = <<>>
    /\ pc' = "L211"
    /\ exc' = "Exception"
    /\ UNCHANGED <<stack, arg, hxVars, lineVars, rdVars, rlVars, apiVars,
                   dispVars, ddVars, mainVars, lastSleep>>

\* A handler that turns the alarm outputs off.
HandlerSilences ==
    /\ pc = "L211"
    /\ mh' = [mh EXCEPT !.faulted = TRUE]
    /\ Forget
    /\ exc' = exc
    /\ buzzer' = 0
    /\ alarm_led' = 0
    /\ pc' = "L214"
    /\ UNCHANGED <<stack, arg, hxVars, lineVars, apiVars, dispVars, weight,
                   display_weight, point, lastSleep>>

\* lines 211-213: the handler is entered; the frames left are gone.
Handler ==
    /\ pc = "L211"
    /\ mh' = [mh EXCEPT !.faulted = TRUE]
    /\ Forget
    /\ exc' = exc
    /\ pc' = "L214"
    /\ UNCHANGED <<stack, arg, hxVars, lineVars, apiVars, dispVars, weight,
                   display_weight, buzzer, alarm_led, point, lastSleep>>

\* line 214: the iteration ends.
HandlerSleep ==
    /\ pc = "L214"
    /\ lastSleep' = BACKOFF_SLEEP_MS
    /\ mh' = [mh EXCEPT !.sleeps = Append(@, BACKOFF_SLEEP_MS)]
    /\ exc' = "none"
    /\ pc' = "L190"
    /\ UNCHANGED <<stack, arg, hxVars, lineVars, rdVars, rlVars, apiVars,
                   dispVars, ddVars, weight, display_weight, buzzer,
                   alarm_led, point>>

\* Reference units given at line 175 by the variants of main that SpecLoop
\* covers: the one of the source and 0.
LoopUnitArgs == {0, 420}

\* lines 172-175 with another reference unit:
\* hx.set_offset(0); hx.set_reference_unit(reference_unit).
MainCalibrateUnit(reference_unit) ==
    /\ pc = "L172"
    /\ OFFSET' = 0
    /\ REFERENCE_UNIT' = reference_unit
    /\ cal' = [offset |-> 0, unit |-> reference_unit]
    /\ pc' = "L178"
    /\ UNCHANGED <<stack, arg, exc, GAIN, lineVars, rdVars, rlVars, apiVars,
                   dispVars, ddVars, mainVars, lastSleep>>

MainSteps ==
    \/ MainNewHX \/ MainCalibrate \/ MainNewOutputs
    \/ LoopRead \/ LoopAbs \/ LoopShow \/ LoopTest \/ LoopBuzzer \/ LoopLed
    \/ LoopSleep \/ Fault \/ FaultPrint \/ Handler \/ HandlerSleep

----------------------------------------------------------------------------
(* Specifications *)

\* Before anything is constructed: no attribute is set and no line is
\* configured.
InitCommon ==
    /\ stack = <<>>
    /\ arg = 0
    /\ exc = "none"
    /\ PD_SCK = Unset
    /\ DOUT = Unset
    /\ GAIN = 0
    /\ REFERENCE_UNIT = 1
    /\ OFFSET = 0
    /\ cal = CAL0
    /\ byte_value = 0
    /\ data_bytes = <<>>
    /\ nbit = 0
    /\ combined_value = NoInt
    /\ signed_value = 0
    /\ weight_kg = NoValue
    /\ cv_arg = NoInt
    /\ cv_ret = NoInt
    /\ ready_ret = "none"
    /\ snap = SNAP0
    /\ rr = RR0
    /\ segments = [i \in 0..6 |-> Unset]
    /\ digits = [i \in 0..2 |-> Unset]
    /\ dd = DD0
    /\ number = NoValue
    /\ dlog = <<>>
    /\ weight = NoValue
    /\ display_weight = NoValue
    /\ buzzer = Unset
    /\ alarm_led = Unset
    /\ point = Unset
    /\ lastSleep = 0
    /\ mh = MH0

Init == InitCommon /\ pc = "L168"
Next == MainSteps \/ HXSteps \/ DisplaySteps
Spec == Init /\ [][Next]_vars

\* main with a sensor whose data line is eventually read low by the poll of
\* line 59, and a scheduler that runs every step of a read in progress.
SpecFair ==
    /\ Spec
    /\ WF_vars(PollReady)
    /\ WF_vars(ClockHigh)
    /\ WF_vars(Sample)
    /\ WF_vars(ClockLow)
    /\ WF_vars(ReadRawReturn)

\* main with the reference unit of line 175 taken from LoopUnitArgs.
NextLoop ==
    \/ MainNewHX
    \/ \E r \in LoopUnitArgs : MainCalibrateUnit(r)
    \/ MainNewOutputs
    \/ LoopRead \/ LoopAbs \/ LoopShow \/ LoopTest \/ LoopBuzzer \/ LoopLed
    \/ LoopSleep \/ Fault \/ FaultPrint \/ Handler \/ HandlerSleep
    \/ HXSteps \/ DisplaySteps
SpecLoop == Init /\ [][NextLoop]_vars

InitHX == InitCommon /\ pc = "new_hx"
NextHX == HXClient \/ HXSteps
SpecHX == InitHX /\ [][NextHX]_vars

InitDisplay == InitCommon /\ pc = "new_display"
NextDisplay == DisplayClient \/ DisplaySteps
SpecDisplay == InitDisplay /\ [][NextDisplay]_vars

----------------------------------------------------------------------------
(* Properties of class HX711, checked under SpecHX *)

\* The positions inside read_raw_bytes after its entry.
ReadPcs == {"rrb_L59", "rnb_L43", "rnb_L44", "rnb_L45", "rrb_L70"}

\* C1: a read_raw_bytes call has made exactly 24 + GAIN clock pulses when it
\* returns; no pulse is made (the clock is not even raised) before is_ready
\* has returned True; and the data line is sampled once after the falling
\* edge of each pulse, the first 24 samples being the data bits.
C1_PulsesOfARead ==
    /\ pc = "rrb_L70" => rr.pulses = 24 + GAIN
    /\ pc = "rrb_L59" => ~rr.ready /\ rr.pulses = 0 /\ PD_SCK # 1
    /\ pc \in ReadPcs /\ (rr.pulses > 0 \/ PD_SCK = 1) => rr.ready
    /\ pc \in {"rnb_L43", "rrb_L70"} =>
          PD_SCK = 0 /\ rr.samples = rr.pulses
    /\ pc = "rnb_L44" => PD_SCK = 1 /\ rr.samples = rr.pulses
    /\ pc = "rnb_L45" => PD_SCK = 0 /\ rr.samples = rr.pulses - 1
    /\ pc \in ReadPcs => Len(rr.bits) = Min(rr.samples, 24)

C1_Witness ==
    pc = "rrb_L70" /\ GAIN = 3 /\ rr.pulses = 27 /\ rr.samples = 27

\* The number whose binary digits are bits[lo..hi], bits[lo] the most
\* significant.
RECURSIVE BitsValue(_, _, _)
BitsValue(bits, lo, hi) ==
    IF hi < lo THEN 0
    ELSE bits[hi] + 2 * BitsValue(bits, lo, hi - 1)

\* C2: the bytes read_raw_bytes returns are bits 0-7, 8-15 and 16-23 of the
\* sampled sequence, each most significant bit first, and the word read_long
\* combines from them is the sum of b_i * 2^(23-i).
C2_BigEndianWord ==
    /\ pc = "rrb_L70" =>
          data_bytes = << BitsValue(rr.bits, 1, 8), BitsValue(rr.bits, 9, 16),
                          BitsValue(rr.bits, 17, 24) >>
    /\ pc \in {"rl_L81", "rl_L84"} =>
          combined_value = BitsValue(rr.bits, 1, 24)
    /\ pc = "client" /\ weight_kg # NoValue =>
          combined_value = BitsValue(rr.bits, 1, 24)

C2_Witness ==
    /\ pc = "rl_L81"
    /\ data_bytes = <<170, 85, 240>>
    /\ combined_value = 11163120

\* The signed value of a 24-bit two's-complement word.
Decode(v) == IF v < 8388608 THEN v ELSE v - 16777216

\* C3: convert_from_twos_complement(v) is v below 2^23 and v - 2^24 from
\* 2^23 on, for a direct call and for the call in read_long; 0x7FFFFF gives
\* 8388607, 0x800000 gives -8388608 and 0xFFFFFF gives -1.
C3_TwosComplement ==
    /\ cv_arg # NoInt => cv_ret = Decode(cv_arg)
    /\ cv_arg = 8388607 => cv_ret = 8388607
    /\ cv_arg = 8388608 => cv_ret = 0 - 8388608
    /\ cv_arg = 16777215 => cv_ret = 0 - 1
    /\ pc = "rl_L84" => signed_value = Decode(combined_value)

C3_Witness == cv_arg = 8388608 /\ cv_ret = 0 - 8388608

\* C4: set_gain(128) sets GAIN to 1, set_gain(64) to 3 and set_gain(32) to
\* 2, and the read that follows the assignment makes that many pulses after
\* the 24 data pulses.
C4_GainPulseCounts ==
    LET expected == IF arg = 128 THEN 1 ELSE IF arg = 64 THEN 3 ELSE 2
    IN  /\ pc \in {"sg_L38", "sg_ret"} /\ arg \in {128, 64, 32} =>
              GAIN = expected
        /\ pc = "sg_ret" /\ arg \in {128, 64, 32} =>
              rr.pulses = 24 + expected
        /\ pc \in ReadPcs /\ Head(stack) = "sg_ret" /\ arg \in {128, 64, 32} =>
              GAIN = expected /\ rr.pulses <= 24 + expected

C4_Witness == pc = "sg_ret" /\ arg = 64 /\ GAIN = 3 /\ rr.pulses = 27

----------------------------------------------------------------------------
(* Properties of class Display, checked under SpecDisplay *)

\* The digit lines that are active (driven to 0).
ActiveDigits == { d \in 0..2 : digits[d] = 0 }

\* C6: from the construction of the Display on, at most one digit-select
\* line is active.
C6_AtMostOneActive ==
    pc # "new_display" => Cardinality(ActiveDigits) <= 1

\* Bit i of the entry of SEGMENT_PATTERNS that Python's indexing gives for
\* value.
PatternBit(value, i) ==
    (SEGMENT_PATTERNS[IF value >= 0 THEN value + 1 ELSE value + 11]
        \div Pow2(i)) % 2

\* C7: inside display_digit the digit lines are all off from the end of the
\* blanking until the activation, so every segment write happens with all of
\* them off; the segment lines written so far hold the bits of the pattern
\* of value; the activation comes after all seven are written and leaves
\* exactly the line of position active.
C7_BlankPatternActivate ==
    /\ pc \in {"dd_L138", "dd_L140", "dd_L143"} =>
          \A d \in 0..2 : digits[d] = 1
    /\ pc \in {"dd_L140", "dd_L143"} =>
          \A j \in 0..(dd.i - 1) : segments[j] = PatternBit(dd.digit, j)
    /\ pc = "dd_L143" => dd.i = 7
    /\ dd.done =>
          /\ \A j \in 0..6 : segments[j] = PatternBit(dd.digit, j)
          /\ ActiveDigits = {dd.position}

C7_Witness ==
    /\ pc = "client"
    /\ dd.done /\ dd.digit = 7 /\ dd.position = 1
    /\ digits = [d \in 0..2 |-> IF d = 1 THEN 0 ELSE 1]
    /\ segments = [j \in 0..6 |-> IF j \in {4, 5, 6} THEN 1 ELSE 0]

\* C10: show_number(n) for a whole n in 0..99 makes exactly three
\* display_digit calls: (n div 10, slot 0), (n mod 10, slot 1), (0, slot 2);
\* 0 gives the digits (0,0,0) and 99 gives (9,9,0).
C10_ThreeDigits ==
    /\ /\ pc = "client"
       /\ exc = "none"
       /\ number # NoValue
       /\ number[2] = 1
       /\ number[1] \in 0..99
       => dlog = << <<number[1] \div 10, 0>>, <<number[1] % 10, 1>>,
                    <<0, 2>> >>
    /\ pc = "client" /\ number = <<0, 1>> =>
          dlog = << <<0, 0>>, <<0, 1>>, <<0, 2>> >>
    /\ pc = "client" /\ number = <<99, 1>> =>
          dlog = << <<9, 0>>, <<9, 1>>, <<0, 2>> >>
    /\ number # NoValue /\ number[2] = 1 /\ number[1] \in 0..99 =>
          /\ Len(dlog) <= 3
          /\ \A k \in 1..Len(dlog) : dlog[k][2] = k - 1

C10_Witness ==
    /\ pc = "client"
    /\ number = <<47, 1>>
    /\ dlog = << <<4, 0>>, <<7, 1>>, <<0, 2>> >>

----------------------------------------------------------------------------
(* Properties of main, checked under Spec *)

C9_LoopSurvivesFaults ==
    /\ [](pc # "terminated")
    /\ [][ /\ (exc = "none" /\ exc' # "none") => pc' = "L211"
           /\ pc = "L211" => pc' = "L214" /\ lastSleep' = lastSleep
           /\ pc = "L214" => pc' = "L190" /\ lastSleep' = 500
           /\ pc = "L190" =>
                 pc' = "read_long" /\ stack' = <<"L190_ret">>
           /\ pc = "L209" => pc' = "L190" /\ lastSleep' = 100 ]_vars

C9_Witness ==
    pc = "L190" /\ mh.faulted /\ mh.sleeps = <<500>> /\ lastSleep = 500

----------------------------------------------------------------------------
(* Further properties of class Display, checked under SpecDisplay *)

\* C11: when display_digit(value, position), value in 0..9 and position in
\* 0..2, is called again right after it returned, the ten lines are after
\* the second call as they were after the first, whatever they were before
\* the first.
C11_DisplayDigitIdempotent ==
    /\ pc = "client"
    /\ snap.taken
    /\ dd.done
    /\ dd.digit \in 0..9
    /\ dd.position \in 0..2
    => segments = snap.segments /\ digits = snap.digits

C11_Witness ==
    /\ pc = "client"
    /\ snap.taken
    /\ dd.done /\ dd.digit = 4 /\ dd.position = 0
    /\ segments = snap.segments
    /\ digits = [d \in 0..2 |-> IF d = 0 THEN 0 ELSE 1]

----------------------------------------------------------------------------
(* Properties of main with any reference unit, checked under SpecLoop *)

\* The positions of an iteration of main's loop after read_long returned.
AfterReadPcs ==
    {"L190_ret", "L193", "show_number", "display_digit", "dd_L132",
     "dd_L138", "dd_L140", "dd_L143", "sn_L153", "sn_L157", "sn_L160",
     "sn_L161", "L194_ret", "L200", "L201", "L205", "L206", "L209"}

\* C12: with REFERENCE_UNIT = 0, read_long raises ZeroDivisionError once its
\* read is complete (24 + GAIN pulses made); in main's loop the exception
\* goes to the handler, the iteration never gets a weight and never calls
\* show_number, and after the handler's sleep the next iteration starts.
C12_ZeroUnitIsCaught ==
    /\ [](/\ exc = "ZeroDivisionError" =>
                REFERENCE_UNIT = 0 /\ pc \in {"L211", "L214"}
          /\ pc = "L211" /\ exc = "ZeroDivisionError" =>
                /\ rr.pulses = 24 + GAIN
                /\ PD_SCK = 0
                /\ Len(data_bytes) = 3
                /\ weight_kg = NoValue
          /\ REFERENCE_UNIT = 0 => pc \notin AfterReadPcs
          /\ pc # "terminated")
    /\ [][ /\ pc = "rl_L84" /\ REFERENCE_UNIT = 0 /\ pc' # pc =>
                pc' = "L211" /\ exc' \in {"ZeroDivisionError", "Exception"}
           /\ pc = "L211" => pc' = "L214"
           /\ pc = "L214" => pc' = "L190"
           /\ pc = "L190" => pc' = "read_long" ]_vars

C12_Witness ==
    /\ pc = "L211"
    /\ exc = "ZeroDivisionError"
    /\ REFERENCE_UNIT = 0
    /\ rr.pulses = 25
    /\ mh.sleeps = <<>>

----------------------------------------------------------------------------
(* Further properties of class HX711, checked under SpecHX *)

\* C13: whenever the constructor or a later set_gain call has returned,
\* GAIN is 1, 2 or 3, whatever gain was passed.
C13_GainInRange ==
    pc = "client" => GAIN \in {1, 2, 3}

\* C15: every set_gain call, the constructor's included, drives the clock low
\* and then makes exactly one complete raw read (24 + GAIN pulses, GAIN being
\* the count just set) before it returns; the constructor makes no other
\* read.
C15_SetGainReadsOnce ==
    /\ [](/\ pc \in {"hx_init", "set_gain", "sg_L38"} => rr.reads = 0
          /\ pc = "read_raw_bytes" /\ Head(stack) = "sg_ret" =>
                PD_SCK = 0 /\ rr.reads = 0
          /\ pc \in ReadPcs /\ Head(stack) = "sg_ret" => rr.reads = 1
          /\ pc = "sg_ret" =>
                /\ rr.reads = 1
                /\ rr.pulses = 24 + GAIN
                /\ rr.samples = 24 + GAIN
                /\ Len(data_bytes) = 3
                /\ GAIN = GainPulses(arg, GAIN)
          /\ pc = "hx_L15" => rr.reads = 1)
    /\ [][ /\ pc = "sg_L38" =>
                pc' = "read_raw_bytes" /\ PD_SCK' = 0
                /\ stack' = <<"sg_ret">> \o stack
           /\ pc \in {"sg_ret", "hx_L15"} =>
                pc' = Head(stack) /\ stack' = Tail(stack) /\ rr' = rr
           /\ pc = "hx_init" => pc' = "set_gain" ]_vars

C15_Witness ==
    /\ pc = "sg_ret"
    /\ stack = <<"hx_L15", "client">>
    /\ rr.reads = 1
    /\ GAIN = 2
    /\ rr.pulses = 26

\* The positions inside read_raw_bytes and read_long.
ReadLongPcs ==
    ReadPcs \cup {"read_raw_bytes", "read_long", "rl_L78", "rl_L81", "rl_L84"}

\* C17: GAIN is written by set_gain only (and given its initial 0 by the
\* constructor): no step of read_raw_bytes or read_long, and no is_ready,
\* set_offset or set_reference_unit call, changes it.  set_offset changes
\* nothing but OFFSET, set_reference_unit nothing but REFERENCE_UNIT, and
\* neither touches a GPIO line.
C17_OnlySetGainWritesGain ==
    [][ /\ GAIN' # GAIN => pc \in {"hx_init", "set_gain"}
        /\ pc \in ReadLongPcs => UNCHANGED <<GAIN, OFFSET, REFERENCE_UNIT>>
        /\ pc = "client" /\ pc' = "client" =>
              UNCHANGED <<GAIN, PD_SCK, segments, digits>>
        /\ pc = "client" /\ pc' = "client" /\ ready_ret' = "none" =>
              /\ DOUT' = DOUT
              /\ OFFSET' = OFFSET \/ REFERENCE_UNIT' = REFERENCE_UNIT
        /\ pc = "client" /\ pc' = "client" /\ ready_ret' # "none" =>
              UNCHANGED <<OFFSET, REFERENCE_UNIT>> ]_vars

C17_Witness ==
    /\ pc = "client"
    /\ GAIN = 3
    /\ OFFSET = 1
    /\ REFERENCE_UNIT = 420
    /\ cal = [offset |-> 1, unit |-> 420]
    /\ PD_SCK = 0

\* The positions where set_gain, read_raw_bytes or read_long is about to
\* return or has just returned to its caller inside the driver.
ReturnPcs == {"rrb_L70", "sg_ret", "rl_L78", "rl_L81", "rl_L84", "hx_L15"}

\* The clock is low at every poll of line 59 and at every return.
ClockLowAtPollAndReturn ==
    /\ pc = "rrb_L59" => PD_SCK = 0
    /\ pc \in ReturnPcs => PD_SCK = 0
    /\ pc = "client" => PD_SCK = 0

\* C18 as stated: the clock is low at every poll and at every return of
\* set_gain, read_raw_bytes and read_long, and it is high only between the
\* two writes (lines 43 and 44) of one read_next_bit call.
C18_ClockHighOnlyInPulse ==
    /\ ClockLowAtPollAndReturn
    /\ PD_SCK = 1 => pc = "rnb_L44"

\* C18, amended: the same, from the write of line 38 in the constructor's
\* set_gain call on; before that write the clock holds the level the pin
\* had when the driver was constructed, which may be high.
C18_ClockHighOnlyInPulseAfterInit ==
    /\ ClockLowAtPollAndReturn
    /\ PD_SCK = 1 =>
          \/ pc = "rnb_L44"
          \/ pc \in {"set_gain", "sg_L38"} /\ Head(stack) = "hx_L15"

C18_Witness ==
    /\ pc = "rnb_L44"
    /\ PD_SCK = 1
    /\ rr.pulses = 24
    /\ GAIN = 1
    /\ stack = <<"rl_L78", "client">>

----------------------------------------------------------------------------
(* Further properties of main, checked under Spec *)

\* C14: every display_digit call that show_number makes for a value main
\* passes gets a digit in 0..9 (the tenths digit is never negative), and
\* the segment lines are written only for such a digit.
C14_DigitsInRange ==
    /\ \A k \in 1..Len(dlog) : dlog[k][1] \in 0..9
    /\ pc = "dd_L140" => dd.digit \in 0..9

\* The positions inside display_digit.
DisplayDigitPcs == {"display_digit", "dd_L132", "dd_L138", "dd_L140", "dd_L143"}

\* C19: from the return of show_number's third display_digit call until the
\* next show_number call (through the alarm update, the sleep and the next
\* read), exactly digit line 2 is active and the segment lines hold the
\* pattern of the tenths digit; once the Display is constructed (line 178),
\* no step outside display_digit writes a segment or digit line.
C19_LastDigitStaysLit ==
    /\ [](Len(dlog) = 3 /\ dd.done =>
            /\ dlog[3][2] = 2
            /\ ActiveDigits = {2}
            /\ \A j \in 0..6 : segments[j] = PatternBit(dlog[3][1], j))
    /\ [][pc \notin DisplayDigitPcs \cup {"L178"} =>
              UNCHANGED <<segments, digits>>]_vars

C19_Witness ==
    /\ pc = "rnb_L45"
    /\ stack = <<"rl_L78", "L190_ret">>
    /\ rr.pulses = 25
    /\ Len(dlog) = 3 /\ dd.done
    /\ dlog[3] = <<5, 2>>
    /\ ActiveDigits = {2}
    /\ \A j \in 0..6 : segments[j] = PatternBit(5, j)
    /\ mh.sleeps = <<>>

----------------------------------------------------------------------------
(* Termination of a read, checked under SpecFair *)

\* C16: a read_raw_bytes call that polls returns once the data line reads low;
\* a poll that reads the line high stays in the loop of line 59 and raises
\* nothing, so with the line high forever the call never returns, main's
\* handler is not reached and no other iteration starts.
C16_ReadReturnsWhenReady ==
    /\ pc = "rrb_L59" ~> pc \in {"rl_L78", "sg_ret"}
    /\ [][ /\ pc = "rrb_L59" /\ DOUT' = 1 =>
                /\ pc' = "rrb_L59"
                /\ UNCHANGED <<stack, exc, mh, rr, PD_SCK>>
           /\ pc = "rrb_L59" /\ pc' # "rrb_L59" =>
                DOUT' = 0 /\ pc' = "rnb_L43" ]_vars
    /\ []((pc = "rrb_L59" /\ [](DOUT = 1)) => [](pc = "rrb_L59"))

C16_Witness ==
    /\ pc = "rrb_L59"
    /\ DOUT = 1
    /\ stack = <<"rl_L78", "L190_ret">>
    /\ mh.sleeps = <<>>

====
